---------------------------- MODULE Spec2Model ----------------------------
(***************************************************************************)
(* MoneyBoard / CashFlowVision (src/app.py): a Streamlit script that is    *)
(* re-executed from top to bottom on every user interaction.  Each         *)
(* execution loads ./data/transactions.csv, renders the selected page,     *)
(* runs the handler of the widget that fired, and either asks for an       *)
(* immediate re-execution (st.experimental_rerun) or reaches the           *)
(* end-of-script save.                                                     *)
(*                                                                         *)
(* Spec        the ledger pages: navigation, input form, delete, import    *)
(* SpecCat     the category registry page together with the input form     *)
(* SpecPure    the pure functions generate_insights and cumulative_balance *)
(*             applied to bounded sets of ledgers                          *)
(***************************************************************************)
EXTENDS Integers, Sequences, FiniteSets, TLC

VARIABLES
    store,          \* DATA_FILE: NoFile, or File(the sequence of its CSV rows)
    categories,     \* st.session_state.categories: name -> type
    page,           \* the sidebar radio
    uploaded,       \* the st.file_uploader widget: {} or {the file it holds}
    rerunPending,   \* st.experimental_rerun() was called by the last execution
    outcome,        \* what the last execution reported to the user
    nOps,           \* number of ledger-changing user actions so far
    nCatOps,        \* number of registry-changing user actions so far
    arg,            \* SpecPure: the arguments of the pure function
    ret             \* SpecPure: what it returned

vars == <<store, categories, page, uploaded, rerunPending, outcome, nOps,
          nCatOps, arg, ret>>

(***************************************************************************)
(* Bounds of the model.                                                    *)
(***************************************************************************)
MaxOps == 1         \* ledger-changing user actions per behaviour
MaxRows == 8        \* rows a ledger may grow to
MaxCatOps == 3      \* registry-changing user actions per behaviour (SpecCat)
MaxLen == 2         \* SpecPure: length of the dated ledgers
MaxSmall == 6       \* SpecPure: length of the undated ledgers
MaxWindow == 2      \* SpecPure: largest days_window

(***************************************************************************)
(* Values.                                                                 *)
(***************************************************************************)
\* DATA_FILE: whether it exists, and its rows.
NoFile == [exists |-> FALSE, rows |-> <<>>]
File(rows) == [exists |-> TRUE, rows |-> rows]
NaN == "<NaN>"              \* pandas' missing value in a text column
None == "<None>"            \* Python's None
Masuk == "Masuk"
Keluar == "Keluar"

\* The values pandas.read_csv reads as missing (a part of its default list).
NaStrings == {"", "NA", "N/A", "NULL", "NaN", "nan", "null"}

expected_cols == {"date", "description", "category", "type", "amount"}

Pages == {"Dashboard Utama", "Input Transaksi", "Tabel Transaksi",
          "Grafik & Analisis", "Impor/Ekspor", "Kelola Kategori"}

(***************************************************************************)
(* Dates.  In memory a date is its day number, day 1 being 2025-11-01; in  *)
(* a CSV file it is the text YYYY-MM-DD, here the record of its three      *)
(* numbers.  The calendar covers October to December 2025.                 *)
(***************************************************************************)
strftime(n) ==
    IF n <= 0 THEN [y |-> 2025, m |-> 10, d |-> 31 + n]
    ELSE IF n <= 30 THEN [y |-> 2025, m |-> 11, d |-> n]
    ELSE [y |-> 2025, m |-> 12, d |-> n - 30]

to_datetime(s) ==
    IF s.m = 10 THEN s.d - 31
    ELSE IF s.m = 11 THEN s.d
    ELSE s.d + 30

(***************************************************************************)
(* Sequence helpers.                                                       *)
(***************************************************************************)
RECURSIVE SumSeq(_)
SumSeq(s) == IF s = <<>> THEN 0 ELSE Head(s) + SumSeq(Tail(s))

\* The members of the index set keep, in ascending order.
Ascending(keep) ==
    [i \in 1..Cardinality(keep) |->
        CHOOSE j \in keep : Cardinality({k \in keep : k < j}) = i - 1]

(***************************************************************************)
(* Ledger store.                                                           *)
(***************************************************************************)
\* An amount cell of a CSV file: a number (kept in tenths, so that a decimal
\* such as 1999.9 can be written) or a text that is no number.
Num(n) == [isnum |-> TRUE, tenths |-> 10 * n]
Tenths(t) == [isnum |-> TRUE, tenths |-> t]
NotANumber == [isnum |-> FALSE, tenths |-> 0]

\* pd.to_numeric(errors="coerce").fillna(0).astype(int) on one cell: a text
\* becomes 0, a number is truncated toward zero.
coerce_amount(cell) ==
    IF ~cell.isnum THEN 0
    ELSE IF cell.tenths >= 0 THEN cell.tenths \div 10
    ELSE 0 - ((0 - cell.tenths) \div 10)

CsvRow(date, description, category, type, amount) ==
    [date |-> date, description |-> description, category |-> category,
     type |-> type, amount |-> amount]

\* create_sample_data: the six rows written when DATA_FILE does not exist.
create_sample_data ==
    << CsvRow(strftime(1), "Penjualan Produk A", "Penjualan", Masuk, Num(1500000)),
       CsvRow(strftime(2), "Beli Bahan", "Operasional", Keluar, Num(300000)),
       CsvRow(strftime(3), "Project X", "Proyek", Masuk, Num(2500000)),
       CsvRow(strftime(5), "Transport", "Transport", Keluar, Num(75000)),
       CsvRow(strftime(12), "Freelance", "Part-time", Masuk, Num(500000)),
       CsvRow(strftime(20), "Listrik", "Operasional", Keluar, Num(200000)) >>

\* pandas.read_csv on one text cell.
read_text(cell) == IF cell \in NaStrings THEN NaN ELSE cell

\* DataFrame.to_csv on one text cell.
write_text(v) == IF v = NaN THEN "" ELSE v

\* The file as it is once load_data has returned (it creates a missing file).
file_after_load(st) == IF st.exists THEN st ELSE File(create_sample_data)

\* One CSV row as a row of the DataFrame: the date parsed, the amount coerced.
load_row(r) ==
    [date |-> to_datetime(r.date),
     description |-> read_text(r.description),
     category |-> read_text(r.category),
     type |-> read_text(r.type),
     amount |-> coerce_amount(r.amount)]

load_data(st) ==
    LET rows == file_after_load(st).rows
    IN  [i \in 1..Len(rows) |-> load_row(rows[i])]

save_row(r) ==
    [date |-> strftime(r.date),
     description |-> write_text(r.description),
     category |-> write_text(r.category),
     type |-> write_text(r.type),
     amount |-> Num(r.amount)]

save_data(df) == File([i \in 1..Len(df) |-> save_row(df[i])])

(***************************************************************************)
(* Aggregation.                                                            *)
(***************************************************************************)
\* df.loc[df["type"] == t, "amount"].sum()
sum_of_type(df, t) ==
    SumSeq([i \in 1..Len(df) |-> IF df[i].type = t THEN df[i].amount ELSE 0])

compute_summary(df) ==
    LET total_masuk == sum_of_type(df, Masuk)
        total_keluar == sum_of_type(df, Keluar)
    IN  [total_masuk |-> total_masuk, total_keluar |-> total_keluar,
         saldo |-> total_masuk - total_keluar]

\* df.sort_values("date") sorts with pandas' default kind, quicksort, which
\* does not promise to keep rows of equal date in their order: every
\* arrangement of the row numbers that is ascending by date is a possible
\* result.
RECURSIVE sort_orders(_, _)
sort_orders(df, left) ==
    IF left = {} THEN {<<>>}
    ELSE LET first == {i \in left : \A j \in left : df[i].date <= df[j].date}
         IN  UNION {{<<i>> \o rest : rest \in sort_orders(df, left \ {i})} : i \in first}

sort_values(df) == sort_orders(df, 1..Len(df))

amount_signed(r) == IF r.type = Masuk THEN r.amount ELSE 0 - r.amount

\* cumulative_balance for one result of the sort: per output row its date,
\* the number it had in df, its signed amount and the running sum.
cumulative_balance(df, order) ==
    LET signed == [i \in 1..Len(order) |-> amount_signed(df[order[i]])]
    IN  [i \in 1..Len(order) |->
            [date |-> df[order[i]].date,
             index |-> order[i],
             amount_signed |-> signed[i],
             balance |-> SumSeq(SubSeq(signed, 1, i))]]

(***************************************************************************)
(* Rule-based analysis (generate_insights).                                *)
(***************************************************************************)
SMALL_AMOUNT == 50000

\* Lines 102-106 with the spec's reading of the previous window, which leaves
\* the day today - days_window between the two windows.
insight_windows_apart(today, days_window) ==
    [start_recent |-> today - (days_window - 1),
     end_recent |-> today,
     start_prev |-> today - 2 * days_window,
     end_prev |-> today - days_window - 1]

\* Lines 102-106: the two windows, each bound derived from the one before.
insight_windows(today, days_window) ==
    LET end_recent == today
        start_recent == today - (days_window - 1)
        start_prev == start_recent - days_window
        end_prev == start_recent - 1
    IN  [start_recent |-> start_recent, end_recent |-> end_recent,
         start_prev |-> start_prev, end_prev |-> end_prev]

\* Lines 108-112: amounts of type Masuk less amounts of type Keluar among
\* the rows dated from lo to hi.
masked_net(df, lo, hi) ==
    LET masked(t) == SumSeq([i \in 1..Len(df) |->
                        IF df[i].date >= lo /\ df[i].date <= hi /\ df[i].type = t
                        THEN df[i].amount ELSE 0])
    IN  masked(Masuk) - masked(Keluar)

\* out_df.groupby("category").amount.sum(): groupby leaves out the rows whose
\* key is missing.
outflow_by_category(df) ==
    LET keys == {df[i].category : i \in {j \in 1..Len(df) : df[j].type = Keluar}} \ {NaN}
    IN  [k \in keys |->
            SumSeq([i \in 1..Len(df) |->
                IF df[i].type = Keluar /\ df[i].category = k THEN df[i].amount ELSE 0])]

\* The categories sort_values(ascending=False) may put first: those of the
\* largest sum.
top_categories(df) ==
    LET sums == outflow_by_category(df)
    IN  {k \in DOMAIN sums : \A o \in DOMAIN sums : sums[o] <= sums[k]}

AdviceNegative ==
    "Saldo negatif: lakukan pengurangan pengeluaran atau cari pemasukan tambahan."
AdviceLow ==
    "Saldo rendah relatif terhadap total pemasukan. Saran: sisihkan dana darurat minimal 10% dari pemasukan bulanan."
AdviceHealthy ==
    "Saldo sehat sejauh ini. Pertahankan arus kas dan catat pengeluaran rutin."
AdviceSmall ==
    "Banyak pengeluaran kecil (< Rp50.000). Gabungkan atau kurangi frekuensi jika memungkinkan untuk efisiensi."

\* Lines 131-143.  saldo < tot_in * 0.1 compares an integer with a float; for
\* integers it decides as saldo * 10 < tot_in does.
advice_lines(df) ==
    LET s == compute_summary(df)
        small_out == {i \in 1..Len(df) : df[i].type = Keluar /\ df[i].amount < SMALL_AMOUNT}
    IN  << IF s.saldo < 0 THEN AdviceNegative
           ELSE IF s.saldo * 10 < s.total_masuk THEN AdviceLow
           ELSE AdviceHealthy >>
        \o (IF Cardinality(small_out) > 5 THEN <<AdviceSmall>> ELSE <<>>)

\* Lines 146-150.
actions ==
    << "Buat anggaran per kategori dan batasi kategori terbesar.",
       "Eksport data setiap bulan untuk backup.",
       "Aktifkan notifikasi saat saldo di bawah threshold (fitur lanjutan)." >>

\* Line 151: advice + actions.
advice_then_actions(advice) == advice \o actions

\* top_cat.index[0] (line 125) raises IndexError when there are outflows but
\* none of them has a category: the grouped sums are then empty.
insights_raise(df) ==
    /\ \E i \in 1..Len(df) : df[i].type = Keluar
    /\ DOMAIN outflow_by_category(df) = {}

\* generate_insights(df, days_window) evaluated on the day today, with
\* top_cat_name the category the sort of line 124 put first.  The result
\* carries the exception raised if any, the two lists returned, and the two
\* net flows computed at lines 111-112.
generate_insights(df, days_window, today, top_cat_name) ==
    IF Len(df) = 0
    THEN [fn |-> "generate_insights", raised |-> "",
          insights |-> << [text |-> "Belum ada data transaksi untuk dianalisis."] >>,
          actions |-> <<>>, recent_sum |-> 0, prev_sum |-> 0]
    ELSE
    LET s == compute_summary(df)
        w == insight_windows(today, days_window)
        recent_sum == masked_net(df, w.start_recent, w.end_recent)
        prev_sum == masked_net(df, w.start_prev, w.end_prev)
        change == recent_sum - prev_sum
        trend ==
            IF prev_sum = 0
            THEN [text |-> "Arus kas bersih; tidak ada data periode sebelumnya",
                  days_window |-> days_window, recent_sum |-> recent_sum]
            ELSE [text |-> "Perbandingan arus kas bersih",
                  days_window |-> days_window,
                  sign |-> IF change > 0 THEN "naik"
                           ELSE IF change < 0 THEN "turun" ELSE "stabil",
                  change |-> change,
                  base |-> IF prev_sum < 0 THEN 0 - prev_sum ELSE prev_sum]
        top ==
            IF \E i \in 1..Len(df) : df[i].type = Keluar
            THEN [text |-> "Kategori pengeluaran terbesar",
                  top_cat_name |-> top_cat_name,
                  top_cat_val |-> IF top_cat_name \in DOMAIN outflow_by_category(df)
                                  THEN outflow_by_category(df)[top_cat_name] ELSE 0]
            ELSE [text |-> "Belum ada pengeluaran tercatat."]
    IN  IF insights_raise(df)
        THEN [fn |-> "generate_insights", raised |-> "IndexError",
              insights |-> <<>>, actions |-> <<>>,
              recent_sum |-> recent_sum, prev_sum |-> prev_sum]
        ELSE [fn |-> "generate_insights", raised |-> "",
              insights |-> << [text |-> "Total pemasukan, pengeluaran, saldo akhir",
                               tot_in |-> s.total_masuk, tot_out |-> s.total_keluar,
                               saldo |-> s.saldo],
                              trend, top >>,
              actions |-> advice_then_actions(advice_lines(df)),
              recent_sum |-> recent_sum, prev_sum |-> prev_sum]

(***************************************************************************)
(* Category registry (st.session_state.categories).                        *)
(***************************************************************************)
default_categories ==
    [k \in {"Penjualan", "Proyek", "Part-time", "Operasional", "Transport",
            "Bahan baku", "Lainnya"} |->
        IF k \in {"Penjualan", "Proyek", "Part-time"} THEN Masuk ELSE Keluar]

\* The options of the "Kategori" selectbox on the input form.
category_options(cats, ttype) ==
    LET of_type == {k \in DOMAIN cats : cats[k] = ttype}
    IN  IF of_type = {} THEN {"Lainnya"} ELSE of_type

\* st.session_state.categories[name] = type
set_category(cats, name, type) ==
    [k \in DOMAIN cats \cup {name} |-> IF k = name THEN type ELSE cats[k]]

\* st.session_state.categories.pop(rem, None)
pop_category(cats, rem) == [k \in DOMAIN cats \ {rem} |-> cats[k]]

(***************************************************************************)
(* The user's inputs.                                                      *)
(***************************************************************************)
\* Input form: st.date_input, st.text_input, st.number_input(min_value=0).
FormDates == {3}
FormDescriptions == {"", "NA"}
FormAmounts == {0, 10000}

\* Kelola Kategori: st.text_input "Nama kategori baru".
NewNames == {"", "Bonus"}

\* Uploaded files: the columns of the parsed table and its rows.
ImportRow(date, description, category, type, amount, note) ==
    [date |-> date, description |-> description, category |-> category,
     type |-> type, amount |-> amount, note |-> note]

Without(r, cols) == [k \in DOMAIN r \ cols |-> r[k]]

\* An uploaded file: its name, the table a parse of it yields, and whether
\* its buffer has been read to the end.
Table(name, cols, rows) ==
    [name |-> name, columns |-> cols, consumed |-> FALSE,
     rows |-> [i \in 1..Len(rows) |-> Without(rows[i], DOMAIN rows[i] \ cols)]]

\* uploaded.name.endswith(".csv")
endswith_csv(name) == name \in {"good.csv", "signed.csv", "missing.csv"}

FileGood ==
    Table("good.csv", expected_cols,
          << ImportRow(strftime(3), "Bonus", "Penjualan", Masuk, Num(250000), "") >>)

\* A type that is neither Masuk nor Keluar, a text in the amount column,
\* empty description and category cells, and a column the ledger does not
\* have.
FileOdd ==
    Table("odd.xlsx", expected_cols \cup {"note"},
          << ImportRow(strftime(4), "Pindah dana", "Lainnya", "Transfer", Num(70000), "x"),
             ImportRow(strftime(4), "", "", Keluar, NotANumber, "y") >>)

\* A negative amount and a decimal one.
FileSigned ==
    Table("signed.csv", expected_cols,
          << ImportRow(strftime(2), "Koreksi", "Operasional", Keluar, Num(0 - 5000), ""),
             ImportRow(strftime(2), "Bunga", "Lainnya", Masuk, Tenths(19999), "") >>)

FileMissing(col) == Table("missing.csv", expected_cols \ {col}, FileGood.rows)

ImportFiles ==
    {FileGood, FileOdd, FileSigned} \cup {FileMissing(c) : c \in expected_cols}

(***************************************************************************)
(* One execution of the script: load_data, the handler of the selected     *)
(* page, then st.experimental_rerun or the end-of-script save.  An         *)
(* execution yields the file it leaves, the registry, whether it asked for *)
(* a re-execution, and what it reported.                                   *)
(***************************************************************************)
Result(file, cats, rerun, report) ==
    [store |-> file, categories |-> cats, rerun |-> rerun, outcome |-> report]

NoEvent == [kind |-> "none"]

\* Pages that only display: the script reaches the end-of-script save.
view_page(df, cats) == Result(save_data(df), cats, FALSE, "ok")

\* "Dashboard Utama": generate_insights(df) is called outside any try; if it
\* raises, the execution stops before the end-of-script save.
dashboard_page(file, df, cats) ==
    IF insights_raise(df)
    THEN Result(file, cats, FALSE, "exception")
    ELSE view_page(df, cats)

\* "Input Transaksi": the form and its submit handler.
new_transaction(ev) ==
    [date |-> ev.tdate,
     description |-> IF ev.tdesc # "" THEN ev.tdesc
                     ELSE IF ev.ttype = Masuk THEN "Pemasukan" ELSE "Pengeluaran",
     category |-> ev.tcat,
     type |-> ev.ttype,
     amount |-> ev.tamount]

input_page(df, cats, ev) ==
    IF ev.kind = "submit"
    THEN Result(save_data(Append(df, new_transaction(ev))), cats, TRUE, "saved")
    ELSE view_page(df, cats)

\* df_display[df_display["csv_index"] != sel_index].reset_index(drop=True)
drop_index(df, sel_index) ==
    LET keep == Ascending({j \in 1..Len(df) : j - 1 # sel_index})
    IN  [i \in 1..Len(keep) |-> df[keep[i]]]

\* table_page as it would be with the number_input given fixed limits: the
\* page is built for an empty ledger too.
table_page_built_when_empty(file, df, cats, ev) ==
    IF ev.kind = "delete"
    THEN Result(save_data(drop_index(df, ev.sel_index)), cats, TRUE, "deleted")
    ELSE view_page(df, cats)

\* "Tabel Transaksi".  With no rows, df_display["csv_index"].min() is NaN and
\* int(NaN) raises ValueError while the number_input is built: the execution
\* stops there, before the button and before the end-of-script save.
table_page(file, df, cats, ev) ==
    IF Len(df) = 0
    THEN Result(file, cats, FALSE, "exception")
    ELSE IF ev.kind = "delete"
    THEN Result(save_data(drop_index(df, ev.sel_index)), cats, TRUE, "deleted")
    ELSE view_page(df, cats)

\* One row of the uploaded table as it joins df: the date normalised (line
\* 336), the five columns selected (line 341), the amount coerced (line 342).
incoming_row(r) ==
    [date |-> to_datetime(r.date),
     description |-> read_text(r.description),
     category |-> read_text(r.category),
     type |-> read_text(r.type),
     amount |-> coerce_amount(r.amount)]

\* import_page as it would be with the column check placed after the merge
\* and the save: a column the file lacks is filled as lines 163-165 fill it.
import_page_checked_late(df, cats, up, rewound) ==
    IF up = {} THEN view_page(df, cats)
    ELSE LET incoming == CHOOSE f \in up : TRUE
             filled(r) == [c \in expected_cols |->
                              IF c \in DOMAIN r THEN r[c]
                              ELSE IF c = "amount" THEN Num(0) ELSE ""]
         IN  IF "date" \notin incoming.columns
             THEN Result(save_data(df), cats, FALSE, "import_failed")
             ELSE Result(save_data(df \o [i \in 1..Len(incoming.rows) |->
                                            incoming_row(filled(incoming.rows[i]))]),
                         cats, FALSE,
                         IF expected_cols \subseteq incoming.columns
                         THEN "imported" ELSE "schema_error")

\* "Impor/Ekspor" with the uploader holding up.  A file whose buffer was read
\* by an earlier execution parses again if the buffer is handed over rewound:
\* pd.read_excel always rewinds it, for pd.read_csv it depends on whether
\* Streamlit hands the same buffer or a fresh one (rewound); a buffer at its
\* end makes pd.read_csv raise EmptyDataError.  incoming["date"] raises
\* KeyError when the column is absent.  The except clause reports both; the
\* column check follows the date normalisation.
import_page(df, cats, up, rewound) ==
    IF up = {} THEN view_page(df, cats)
    ELSE LET incoming == CHOOSE f \in up : TRUE
         IN  IF incoming.consumed /\ endswith_csv(incoming.name) /\ ~rewound
             THEN Result(save_data(df), cats, FALSE, "import_failed")
             ELSE IF "date" \notin incoming.columns
             THEN Result(save_data(df), cats, FALSE, "import_failed")
             ELSE IF ~(expected_cols \subseteq incoming.columns)
             THEN Result(save_data(df), cats, FALSE, "schema_error")
             ELSE Result(save_data(df \o [i \in 1..Len(incoming.rows) |->
                                            incoming_row(incoming.rows[i])]),
                         cats, TRUE, "imported")

\* "Kelola Kategori": the two buttons.
category_page(df, cats, ev) ==
    IF ev.kind = "add"
    THEN IF ev.new_name # ""
         THEN Result(save_data(df), set_category(cats, ev.new_name, ev.new_type),
                     FALSE, "added")
         ELSE view_page(df, cats)
    ELSE IF ev.kind = "remove"
    THEN Result(save_data(df), pop_category(cats, ev.rem), FALSE, "removed")
    ELSE view_page(df, cats)

\* Lines 160-371 for the page p, the uploader's value up and the event ev.
execute(st, cats, p, up, ev, rewound) ==
    LET file == file_after_load(st)
        df == load_data(st)
    IN  CASE p = "Dashboard Utama" -> dashboard_page(file, df, cats)
          [] p = "Input Transaksi" -> input_page(df, cats, ev)
          [] p = "Tabel Transaksi" -> table_page(file, df, cats, ev)
          [] p = "Impor/Ekspor" -> import_page(df, cats, up, rewound)
          [] p = "Kelola Kategori" -> category_page(df, cats, ev)
          [] OTHER -> view_page(df, cats)

(***************************************************************************)
(* Actions: one per user interaction, plus the re-execution.               *)
(***************************************************************************)
\* The state after the execution r on page p with the uploader holding up.
Ran(r, p, up) ==
    /\ Len(r.store.rows) <= MaxRows
    /\ store' = r.store
    /\ categories' = r.categories
    /\ rerunPending' = r.rerun
    /\ outcome' = r.outcome
    /\ page' = p
    /\ uploaded' = {[f EXCEPT !.consumed = TRUE] : f \in up}
    /\ UNCHANGED <<arg, ret>>

\* Whether the uploader hands the buffer of a file back at its start: it
\* matters only to pd.read_csv (line 332) on a buffer already read.
buffer_rewound(up) ==
    IF \E f \in up : f.consumed /\ endswith_csv(f.name) THEN BOOLEAN ELSE {TRUE}

\* The sidebar radio; choosing another page replaces a pending
\* re-execution.  A file_uploader that is not rendered loses its value.
Navigate(p) ==
    /\ rerunPending => p # page
    /\ LET up == IF p = "Impor/Ekspor" /\ page = p THEN uploaded ELSE {}
       IN  \E rewound \in buffer_rewound(up) :
               Ran(execute(store, categories, p, up, NoEvent, rewound), p, up)
    /\ UNCHANGED <<nOps, nCatOps>>

\* "Simpan Transaksi".
Submit(tdate, ttype, tdesc, tcat, tamount) ==
    /\ ~rerunPending
    /\ page = "Input Transaksi"
    /\ nOps < MaxOps
    /\ tcat \in category_options(categories, ttype)
    /\ Ran(execute(store, categories, page, {},
                   [kind |-> "submit", tdate |-> tdate, ttype |-> ttype,
                    tdesc |-> tdesc, tcat |-> tcat, tamount |-> tamount], TRUE),
           page, {})
    /\ nOps' = nOps + 1
    /\ UNCHANGED nCatOps

\* "Hapus baris ini"; the number_input admits min..max of csv_index only, and
\* the button exists only if the page was built.
Delete(sel_index) ==
    /\ ~rerunPending
    /\ page = "Tabel Transaksi"
    /\ outcome # "exception"
    /\ nOps < MaxOps
    /\ sel_index \in 0..(Len(load_data(store)) - 1)
    /\ Ran(execute(store, categories, page, {},
                   [kind |-> "delete", sel_index |-> sel_index], TRUE), page, {})
    /\ nOps' = nOps + 1
    /\ UNCHANGED nCatOps

\* A file is dropped on the uploader.
Upload(f) ==
    /\ ~rerunPending
    /\ page = "Impor/Ekspor"
    /\ nOps < MaxOps
    /\ Ran(execute(store, categories, page, {f}, NoEvent, TRUE), page, {f})
    /\ nOps' = nOps + 1
    /\ UNCHANGED nCatOps

\* The uploader's file is removed; this too replaces a pending re-execution.
ClearUpload ==
    /\ page = "Impor/Ekspor"
    /\ uploaded # {}
    /\ Ran(execute(store, categories, page, {}, NoEvent, TRUE), page, {})
    /\ UNCHANGED <<nOps, nCatOps>>

\* st.experimental_rerun(): the script runs again at once with the widgets'
\* values kept; a button reads False again, the uploader still holds its file.
Rerun ==
    /\ rerunPending
    /\ \E rewound \in buffer_rewound(uploaded) :
           Ran(execute(store, categories, page, uploaded, NoEvent, rewound),
               page, uploaded)
    /\ UNCHANGED <<nOps, nCatOps>>

\* "Tambah kategori" / "Hapus kategori".
DoAddCategory(new_name, new_type) ==
    /\ ~rerunPending
    /\ page = "Kelola Kategori"
    /\ Ran(execute(store, categories, page, {},
                   [kind |-> "add", new_name |-> new_name, new_type |-> new_type], TRUE),
           page, {})

DoRemoveCategory(rem) ==
    /\ ~rerunPending
    /\ page = "Kelola Kategori"
    /\ rem \in (IF DOMAIN categories = {} THEN {None} ELSE DOMAIN categories)
    /\ Ran(execute(store, categories, page, {}, [kind |-> "remove", rem |-> rem], TRUE),
           page, {})

AddCategory ==
    \E new_name \in NewNames, new_type \in {Masuk, Keluar} :
        /\ nCatOps < MaxCatOps
        /\ DoAddCategory(new_name, new_type)
        /\ nCatOps' = nCatOps + 1
        /\ UNCHANGED nOps

RemoveCategory ==
    \E rem \in DOMAIN categories \cup {None} :
        /\ nCatOps < MaxCatOps
        /\ DoRemoveCategory(rem)
        /\ nCatOps' = nCatOps + 1
        /\ UNCHANGED nOps

\* SpecPure's variables, unused by the application's specifications.
NoArg == [fn |-> "none"]
NoRet == [fn |-> "none"]

\* The data file a session may find: none, or one a previous session left.
InitStores ==
    {NoFile, File(<<>>),
     File(<< CsvRow(strftime(3), "Pemasukan", "Penjualan", Masuk, Num(10000)) >>)}

Init ==
    /\ store \in InitStores
    /\ categories = default_categories
    /\ page = "Dashboard Utama"
    /\ uploaded = {}
    /\ rerunPending = FALSE
    /\ outcome = "ok"
    /\ nOps = 0
    /\ nCatOps = 0
    /\ arg = NoArg
    /\ ret = NoRet

SubmitForm ==
    \E tdate \in FormDates, ttype \in {Masuk, Keluar}, tdesc \in FormDescriptions,
       tcat \in DOMAIN categories \cup {"Lainnya"}, tamount \in FormAmounts :
        Submit(tdate, ttype, tdesc, tcat, tamount)

\* The ledger pages, with the registry as seeded.
Next ==
    \/ \E p \in Pages : Navigate(p)
    \/ SubmitForm
    \/ \E sel_index \in 0..MaxRows : Delete(sel_index)
    \/ \E f \in ImportFiles : Upload(f)
    \/ ClearUpload
    \/ Rerun

Spec == Init /\ [][Next]_vars

\* The registry page and the input form.
NextCat ==
    \/ \E p \in {"Input Transaksi", "Kelola Kategori"} : Navigate(p)
    \/ AddCategory
    \/ RemoveCategory
    \/ SubmitForm
    \/ Rerun

SpecCat == Init /\ [][NextCat]_vars

(***************************************************************************)
(* Properties of the ledger pages (Spec) and of the registry (SpecCat).    *)
(***************************************************************************)
\* The ledger the next execution will load.
ledger == load_data(store)

\* The file the uploader holds, when it holds one.
held == CHOOSE f \in uploaded : TRUE

\* C1: every row of the persisted ledger has an amount that is a
\* non-negative integer, whatever was created, imported or deleted.
C1_AmountsNonNegativeIntegers ==
    \A i \in 1..Len(store.rows) :
        /\ store.rows[i].amount.isnum
        /\ store.rows[i].amount.tenths % 10 = 0
        /\ store.rows[i].amount.tenths >= 0

C8_CreatedCategoryRegistered ==
    (outcome = "saved" /\ rerunPending) =>
        LET new == store.rows[Len(store.rows)]
        IN  /\ new.category \in DOMAIN categories
            /\ categories[new.category] = new.type

\* C9: the re-execution that follows a successful import leaves the ledger
\* as the import left it: the file's rows are not appended a second time.
C9_ImportedOnce ==
    [][(rerunPending /\ outcome = "imported") => load_data(store') = ledger]_vars

\* C10: on a non-empty ledger the last running balance equals the balance
\* of the summary, whatever the types of the imported rows.
C10_LastBalanceIsSaldo ==
    Len(ledger) > 0 =>
        \A order \in sort_values(ledger) :
            cumulative_balance(ledger, order)[Len(ledger)].balance
                = compute_summary(ledger).saldo

(***************************************************************************)
(* SpecPure: generate_insights and cumulative_balance applied to ledgers   *)
(* drawn from bounded sets.                                                *)
(***************************************************************************)
\* The days the analysis may run on (date.today()), as day numbers.
Todays == {10, 12}
Today == CHOOSE t \in Todays : \A o \in Todays : t <= o

\* The days from before the previous window of the widest analysis to the
\* day after it runs.
AroundWindows ==
    UNION {(t - 2 * MaxWindow - 1)..(t + 1) : t \in Todays}

Row(date, category, type, amount) ==
    [date |-> date, description |-> "x", category |-> category, type |-> type,
     amount |-> amount]

\* Rows dated around the two windows: inflows of 2, outflows of 1.
DatedRows ==
    {Row(d, "Penjualan", Masuk, 2) : d \in AroundWindows}
        \cup {Row(d, "Operasional", Keluar, 1) : d \in AroundWindows}

\* Rows of today around the thresholds of the advice rules; one outflow has
\* no category.
SmallRows ==
    {Row(Today, "Penjualan", Masuk, 100000), Row(Today, "Operasional", Keluar, 90000),
     Row(Today, "Transport", Keluar, SMALL_AMOUNT - 1),
     Row(Today, "Transport", Keluar, SMALL_AMOUNT),
     Row(Today, NaN, Keluar, SMALL_AMOUNT - 1)}

InsightCall(df, days_window, today) ==
    [fn |-> "generate_insights", df |-> df, days_window |-> days_window,
     today |-> today]

BalanceCall(df) ==
    [fn |-> "cumulative_balance", df |-> df, days_window |-> 0, today |-> Today]

\* One call, not yet made: of either function on a dated ledger of MaxLen
\* rows at most, or of generate_insights on a ledger of MaxSmall rows at most
\* around the advice thresholds.
InitPure ==
    /\ \/ \E k \in 0..MaxLen : \E df \in [1..k -> DatedRows] :
              \/ \E w \in 1..MaxWindow, t \in Todays : arg = InsightCall(df, w, t)
              \/ arg = BalanceCall(df)
       \/ \E k \in 0..MaxSmall : \E df \in [1..k -> SmallRows] :
              arg = InsightCall(df, 30, Today)
    /\ ret = NoRet
    /\ store = NoFile
    /\ categories = default_categories
    /\ page = "Dashboard Utama"
    /\ uploaded = {}
    /\ rerunPending = FALSE
    /\ outcome = "ok"
    /\ nOps = 0
    /\ nCatOps = 0

Analyse ==
    /\ arg.fn = "generate_insights"
    /\ ret = NoRet
    /\ \E top_cat_name \in (IF top_categories(arg.df) = {} THEN {NaN}
                            ELSE top_categories(arg.df)) :
           ret' = generate_insights(arg.df, arg.days_window, arg.today, top_cat_name)
    /\ UNCHANGED <<arg, store, categories, page, uploaded, rerunPending, outcome,
                   nOps, nCatOps>>

Accumulate ==
    /\ arg.fn = "cumulative_balance"
    /\ ret = NoRet
    /\ \E order \in sort_values(arg.df) :
           ret' = [fn |-> "cumulative_balance", rows |-> cumulative_balance(arg.df, order)]
    /\ UNCHANGED <<arg, store, categories, page, uploaded, rerunPending, outcome,
                   nOps, nCatOps>>

NextPure == Analyse \/ Accumulate

SpecPure == InitPure /\ [][NextPure]_vars

(***************************************************************************)
(* Properties of the pure functions (SpecPure).                            *)
(***************************************************************************)
analysed == ret.fn = "generate_insights"

\* Inflows count positive and outflows negative.
Signed(r) ==
    IF r.type = Masuk THEN r.amount ELSE IF r.type = Keluar THEN 0 - r.amount ELSE 0

RECURSIVE NetFlow(_, _, _)
NetFlow(df, lo, hi) ==
    IF df = <<>> THEN 0
    ELSE (IF lo <= Head(df).date /\ Head(df).date <= hi THEN Signed(Head(df)) ELSE 0)
            + NetFlow(Tail(df), lo, hi)

\* C4 as amended: the recent net flow sums the transactions dated in
\* [today - (w-1), today]; the previous one sums those dated in
\* [today - 2w + 1, today - w], the w days just before the recent window.
C4_WindowsAdjacent ==
    (analysed /\ Len(arg.df) > 0) =>
        /\ ret.recent_sum
             = NetFlow(arg.df, arg.today - (arg.days_window - 1), arg.today)
        /\ ret.prev_sum
             = NetFlow(arg.df, arg.today - 2 * arg.days_window + 1,
                       arg.today - arg.days_window)

\* C4 as claimed: the previous net flow sums the transactions dated in
\* [today - 2w, today - w - 1], so that one dated today - w is in neither
\* window and one dated today - 2w is in the previous one.
C4_WindowsAsClaimed ==
    (analysed /\ Len(arg.df) > 0) =>
        /\ ret.recent_sum
             = NetFlow(arg.df, arg.today - (arg.days_window - 1), arg.today)
        /\ ret.prev_sum
             = NetFlow(arg.df, arg.today - 2 * arg.days_window,
                       arg.today - arg.days_window - 1)

\* C4 witness: a ledger of one transaction dated today - w and one dated
\* today - 2w was analysed with w > 1, and the previous net flow is that of
\* the first alone.
C4_Witness ==
    /\ analysed
    /\ arg.days_window > 1
    /\ Len(arg.df) = 2
    /\ arg.df[1].date = arg.today - arg.days_window
    /\ arg.df[2].date = arg.today - 2 * arg.days_window
    /\ ret.prev_sum = Signed(arg.df[1])
    /\ ret.recent_sum = 0

FixedActions ==
    << "Buat anggaran per kategori dan batasi kategori terbesar.",
       "Eksport data setiap bulan untuk backup.",
       "Aktifkan notifikasi saat saldo di bawah threshold (fitur lanjutan)." >>

\* The second list without its last three lines.
Recommendations ==
    IF Len(ret.actions) >= 3 THEN SubSeq(ret.actions, 1, Len(ret.actions) - 3) ELSE <<>>

\* C5: for every transaction set, the empty one included, the second list
\* ends with the three fixed suggested actions, after the recommendations.
C5_FixedActionsLast ==
    analysed =>
        /\ Len(ret.actions) >= 3
        /\ SubSeq(ret.actions, Len(ret.actions) - 2, Len(ret.actions)) = FixedActions
        /\ \A i \in 1..Len(Recommendations) :
               Recommendations[i] \in {AdviceNegative, AdviceLow, AdviceHealthy, AdviceSmall}

\* The recommendation lines the rules prescribe for df.
PrescribedAdvice(df) ==
    LET inflow == NetFlow(SelectSeq(df, LAMBDA r : r.type = Masuk), 0 - 1000, 1000)
        balance == NetFlow(df, 0 - 1000, 1000)
        small == Cardinality({i \in 1..Len(df) :
                                df[i].type = Keluar /\ df[i].amount < 50000})
    IN  << IF balance < 0 THEN AdviceNegative
           ELSE IF 10 * balance < inflow THEN AdviceLow
           ELSE AdviceHealthy >>
        \o (IF small > 5 THEN <<AdviceSmall>> ELSE <<>>)

\* C6: for every non-empty transaction set the recommendation lines are one
\* balance line (negative, else low, else healthy) followed by the small
\* expenses line exactly when more than 5 outflows are below 50,000.
C6_RecommendationRules ==
    (analysed /\ Len(arg.df) > 0) =>
        /\ Len(ret.actions) >= 4
        /\ Recommendations = PrescribedAdvice(arg.df)

\* C6, for the calls that return: the lines are the prescribed ones.
C6_RulesWhenReturned ==
    (analysed /\ Len(arg.df) > 0 /\ ret.raised = "") =>
        Recommendations = PrescribedAdvice(arg.df)

\* C7: the rows come out in ascending date order, rows of one date in their
\* original order, and each balance is the sum of the signed amounts of the
\* row and of those before it.
C7_StableRunningBalance ==
    ret.fn = "cumulative_balance" =>
        /\ Len(ret.rows) = Len(arg.df)
        /\ \A i, j \in 1..Len(ret.rows) :
               i < j => \/ ret.rows[i].date < ret.rows[j].date
                        \/ /\ ret.rows[i].date = ret.rows[j].date
                           /\ ret.rows[i].index < ret.rows[j].index
        /\ \A i \in 1..Len(ret.rows) :
               ret.rows[i].balance
                 = SumSeq([k \in 1..i |-> Signed(arg.df[ret.rows[k].index])])

=============================================================================
